---- MODULE Spec2Model ----
\* Model of nerfstudio/viewer/export_panel.py: the export tab of the viewer.
\* The panel's widgets, the control panel's crop settings, the server's
\* notifications and every running Export click handler are the state; the
\* viewer runs widget updates and click handlers as interleaved callbacks, so
\* each handler takes one step per statement that reads or writes shared state.
EXTENDS Integers, Sequences, FiniteSets, TLC

VARIABLES
    viewing_gsplat,   \* isinstance(viewer_model, SplatfactoModel), fixed at populate
    config_path,      \* the config_path the panel was populated with
    crop_viewport,    \* control_panel.crop_viewport
    crop_obb,         \* control_panel.crop_obb: PyNone or an oriented box
    crop_output,      \* the "Use Crop" checkbox (NoWidget with a splat model)
    crop_callbacks,   \* runs of the checkbox's on_update callback in flight
    pcd,              \* widgets of the "Point Cloud" folder
    mesh,             \* widgets of the "Mesh" folder
    splat,            \* widgets of the "Splat" folder
    clicks,           \* one record per Export click: the handler's frame
    displayed,        \* notifications the server currently displays
    edits,            \* number of widget edits made by the user
    cropCall          \* a single call of get_crop_string (SpecCrop)

vars == <<viewing_gsplat, config_path, crop_viewport, crop_obb, crop_output,
          crop_callbacks,
          pcd, mesh, splat, clicks, displayed, edits, cropCall>>

\* ---------------------------------------------------------------- bounds
MaxClicks == 2
MaxEdits == 1
MaxCoord == 1
MaxUpdates == 1

\* ------------------------------------------------------- Python values
PyNone == [type |-> "None"]
PyStr(s) == [type |-> "str", val |-> s]
PyList(l) == [type |-> "list", val |-> l]
Unset == [type |-> "unset"]
\* number of items an iterable yields (a str yields its characters)
PyLen(v) == Len(v.val)

\* ------------------------------------------------------------ text, Path
\* A text is a sequence of tokens: "/" or a name without a slash.
InitPcdDir == <<"exports", "/", "pcd", "/">>
InitMeshDir == <<"exports", "/", "mesh", "/">>
InitSplatDir == <<"exports", "/", "splat", "/">>
\* the texts a user types into an "Output Directory" field
DirTexts == {<<"/", "tmp", "/", ".", "/", "out">>}

\* str(text)
RECURSIVE StrOf(_)
StrOf(s) == IF s = <<>> THEN "" ELSE Head(s) \o StrOf(Tail(s))

RECURSIVE LeadingSlashes(_)
LeadingSlashes(s) ==
    IF s # <<>> /\ Head(s) = "/" THEN 1 + LeadingSlashes(Tail(s)) ELSE 0

\* pathlib.Path(text): the root and the parts, "." and empty parts dropped
Path(s) ==
    LET n == LeadingSlashes(s)
    IN [root |-> IF n = 0 THEN "" ELSE IF n = 2 THEN "//" ELSE "/",
        parts |-> SelectSeq(s, LAMBDA t : t # "/" /\ t # ".")]

RECURSIVE JoinWith(_, _)
JoinWith(parts, sep) ==
    IF parts = <<>> THEN ""
    ELSE IF Len(parts) = 1 THEN parts[1]
    ELSE parts[1] \o sep \o JoinWith(Tail(parts), sep)

\* ------------------------------------------------------- oriented boxes
Identity == <<<<1, 0, 0>>, <<0, 1, 0>>, <<0, 0, 1>>>>
RotZ180 == <<<<-1, 0, 0>>, <<0, -1, 0>>, <<0, 0, 1>>>>
Rotations == {Identity, RotZ180}
Vectors == {<<x, y, z>> : x \in 0..MaxCoord, y \in 0..MaxCoord, z \in 0..MaxCoord}
Scales == {<<k, k, k>> : k \in 1..(MaxCoord + 1)}
OrientedBox(R, T, S) == [type |-> "OrientedBox", R |-> R, T |-> T, S |-> S]
CropBoxes == {OrientedBox(R, T, S) : R \in Rotations, T \in Vectors, S \in Scales}
\* the box the control panel holds when it holds one
PanelBox == OrientedBox(RotZ180, <<0, 1, 1>>, <<2, 2, 2>>)

\* vtf.SO3.from_matrix(R).as_rpy_radians(): roll, pitch, yaw in half turns
\* (the rotations of the model are about z by 0 or pi)
as_rpy_radians(R) == IF R = Identity THEN <<0, 0, 0>> ELSE <<0, 0, 1>>

\* f"{x:.10f}" of a whole number
Fmt10(x) == ToString(x) \o ".0000000000"
\* f"{x:.10f}" of an angle of h half turns
Fmt10Rad(h) == IF h = 0 THEN "0.0000000000" ELSE "3.1415926536"

\* [f"{x:.10f}" for x in xs]
Fmt10All(xs) == [k \in 1..Len(xs) |-> Fmt10(xs[k])]
Fmt10RadAll(xs) == [k \in 1..Len(xs) |-> Fmt10Rad(xs[k])]

\* get_crop_string with rotation and centre returned in each other's place
get_crop_string_swapped(obb, cv) ==
    IF ~cv THEN PyStr("")
    ELSE PyList(<<JoinWith(Fmt10RadAll(as_rpy_radians(obb.R)), " "),
                  JoinWith(Fmt10All(obb.T), " "),
                  JoinWith(Fmt10All(obb.S), " ")>>)

get_crop_string(obb, cv) ==
    IF ~cv THEN PyStr("")
    ELSE LET rpy == as_rpy_radians(obb.R)
             pos == obb.T
             scale == obb.S
             rpystring == JoinWith(Fmt10RadAll(rpy), " ")
             posstring == JoinWith(Fmt10All(pos), " ")
             scalestring == JoinWith(Fmt10All(scale), " ")
         IN PyList(<<posstring, rpystring, scalestring>>)

\* ------------------------------------------------------- notifications
\* server.add_notification(...): the notification, not yet displayed
\* (autoClose=False is 0)
add_notification(title, body, withCloseButton, loading, autoClose) ==
    [title |-> title, body |-> body, withCloseButton |-> withCloseButton,
     loading |-> loading, autoClose |-> autoClose, shown |-> FALSE]
\* notif.show()
show(notif) == [notif EXCEPT !.shown = TRUE]
NoNotif == [title |-> "", body |-> "", withCloseButton |-> FALSE,
            loading |-> FALSE, autoClose |-> 0, shown |-> FALSE]

\* the title of the notification at the head of a click handler
ExportingTitle(kind) ==
    CASE kind = "pcd" -> "Exporting point cloud"
      [] kind = "mesh" -> "Exporting poisson mesh"
      [] kind = "splat" -> "Exporting gaussian splat"

\* server.clear_notification(): nothing is displayed any more
clear_notification(server) == {}

\* show_notification with the test on export_complete inverted
show_notification_swapped(export_complete, server, output_dir) ==
    IF ~export_complete
    THEN LET notif == show(add_notification("Export complete!",
                              "File saved under " \o output_dir, TRUE, FALSE, 5000))
         IN [notif |-> notif, server |-> server \cup {notif}]
    ELSE [notif |-> add_notification("Export error!",
                        "Please try again after a checkpoint is saved after 2000 steps.",
                        TRUE, FALSE, 5000),
          server |-> server]

\* show_notification after its server.clear_notification(): the notification
\* it creates and the server's display (`server` is the display as it is when
\* the notification is posted)
show_notification(export_complete, server, output_dir) ==
    IF export_complete
    THEN LET notif == show(add_notification("Export complete!",
                              "File saved under " \o output_dir, TRUE, FALSE, 5000))
         IN [notif |-> notif, server |-> server \cup {notif}]
    ELSE LET notif == add_notification("Export error!",
                        "Please try again after a checkpoint is saved after 2000 steps.",
                        TRUE, FALSE, 5000)
         IN [notif |-> notif, server |-> server]

\* ------------------------------------------------------------- exporters
NoExport == [cls |-> "none"]

\* ExportPointCloud(...) as the point cloud handler constructs it
ExportPointCloud(cfg, w, pos, rpy, scale) ==
    [cls |-> "ExportPointCloud", load_config |-> cfg,
     output_dir |-> Path(w.output_dir), num_points |-> w.num_points,
     remove_outliers |-> w.remove_outliers, normal_method |-> w.normals,
     save_world_frame |-> w.world_frame,
     obb_center |-> pos, obb_rotation |-> rpy, obb_scale |-> scale,
     complete |-> FALSE]

\* ExportPoissonMesh(...) as the mesh handler constructs it
ExportPoissonMesh(cfg, w, pos, rpy, scale) ==
    [cls |-> "ExportPoissonMesh", load_config |-> cfg,
     output_dir |-> Path(w.output_dir), target_num_faces |-> w.num_faces,
     num_pixels_per_side |-> w.texture_resolution, num_points |-> w.num_points,
     remove_outliers |-> w.remove_outliers, normal_method |-> w.normals,
     obb_center |-> pos, obb_rotation |-> rpy, obb_scale |-> scale,
     complete |-> FALSE]

\* ExportGaussianSplat(...) as the splat handler constructs it
ExportGaussianSplat(cfg, w, pos, rpy, scale) ==
    [cls |-> "ExportGaussianSplat", load_config |-> cfg,
     output_dir |-> Path(w.output_dir),
     obb_center |-> pos, obb_rotation |-> rpy, obb_scale |-> scale,
     complete |-> FALSE]

\* --------------------------------------------------------------- widgets
Kinds == {"pcd", "mesh", "splat"}
NoTab == [exists |-> FALSE]
NoWidget == [exists |-> FALSE]
Checkbox(v) == [exists |-> TRUE, value |-> v]

\* populate_*_tab adds a folder's widgets and its Export button in one branch:
\* `if not viewing_gsplat` (point cloud, mesh), `if viewing_gsplat` (splat)
\* the point cloud folder populated for the wrong model type
HasExportButton_flipped(kind, gsplat) ==
    CASE kind = "pcd" -> gsplat
      [] kind = "mesh" -> ~gsplat
      [] kind = "splat" -> gsplat

HasExportButton(kind, gsplat) ==
    CASE kind = "pcd" -> ~gsplat
      [] kind = "mesh" -> ~gsplat
      [] kind = "splat" -> gsplat

\* the folders as populate_*_tab leaves them
PointCloudTab(gsplat) ==
    IF HasExportButton("pcd", gsplat)
    THEN [exists |-> TRUE, num_points |-> 1000000, world_frame |-> FALSE,
          remove_outliers |-> TRUE, normals |-> "open3d", output_dir |-> InitPcdDir]
    ELSE NoTab
MeshTab(gsplat) ==
    IF HasExportButton("mesh", gsplat)
    THEN [exists |-> TRUE, normals |-> "open3d", num_faces |-> 50000,
          texture_resolution |-> 2048, output_dir |-> InitMeshDir,
          num_points |-> 1000000, remove_outliers |-> TRUE]
    ELSE NoTab
SplatTab(gsplat) ==
    IF HasExportButton("splat", gsplat)
    THEN [exists |-> TRUE, output_dir |-> InitSplatDir]
    ELSE NoTab

\* the values a user can give a widget (min=1 for the counts, min=8 for the
\* texture resolution, the two dropdown options)
FieldValues(kind, f) ==
    CASE f = "output_dir" -> DirTexts
      [] f = "num_points" -> {1, 1000000}
      [] f = "num_faces" -> {1, 50000}
      [] f = "texture_resolution" -> {8, 2048}
      [] f = "normals" -> {"open3d", "model_output"}
      [] f \in {"world_frame", "remove_outliers"} -> BOOLEAN
Fields(kind) ==
    CASE kind = "pcd" -> {"num_points", "world_frame", "remove_outliers", "normals",
                          "output_dir"}
      [] kind = "mesh" -> {"normals", "num_faces", "texture_resolution", "output_dir",
                           "num_points", "remove_outliers"}
      [] kind = "splat" -> {"output_dir"}

TabOf(kind) ==
    CASE kind = "pcd" -> pcd [] kind = "mesh" -> mesh [] kind = "splat" -> splat

\* ------------------------------------------------------- handler frames
\* A frame is one run of an Export click handler. The handler holds no lock,
\* so it rests before every statement that reads or writes state it shares
\* with other callbacks:
\*   "show"     before notif.show() of the "Exporting ..." notification
\*   "guard"    before the test of control_panel.crop_obb / crop_viewport
\*   "crop"     before the call of get_crop_string (guard taken)
\*   "args"     inside the constructor call, before the next widget is read
\*   "in_main"  blocked in export.main()
\*   "clear"    in show_notification, before server.clear_notification()
\*   "posting"  in show_notification, before add_notification / show
\*   "done", or "raised" (an exception ended the handler).
\* atClick (the folder's widgets at the click) and cropAtGuard (the control
\* panel had a crop box and crop_viewport when the guard was tested) record
\* what the panel held at those moments; the handler itself never reads them. argv are the widget values read so far for the
\* constructor call; dirAtResult is the Output Directory text the handler
\* passes to show_notification.
NewFrame(kind, notif, tab) ==
    [kind |-> kind, pc |-> "show", log |-> <<>>, notif |-> notif,
     posstring |-> Unset, rpystring |-> Unset, scalestring |-> Unset,
     argv |-> <<>>, export |-> NoExport, result |-> NoNotif,
     atClick |-> tab, cropAtGuard |-> FALSE,
     dirAtResult |-> Unset]

\* notif.show() of the "Exporting ..." notification
Shown(h) == [h EXCEPT !.pc = "guard", !.notif = show(@), !.log = Append(@, "notify_start")]

\* if control_panel.crop_obb is not None and control_panel.crop_viewport: ...
\* else: posstring = rpystring = scalestring = None
CropGuard(h, obb, cv) ==
    IF obb # PyNone /\ cv
    THEN [h EXCEPT !.pc = "crop"]
    ELSE [h EXCEPT !.pc = "args",
                   !.posstring = PyNone, !.rpystring = PyNone, !.scalestring = PyNone]

\* posstring, rpystring, scalestring = <r>: anything but three items raises
Unpack3(h, r) ==
    IF PyLen(r) = 3
    THEN [h EXCEPT !.pc = "args", !.posstring = PyStr(r.val[1]),
                   !.rpystring = PyStr(r.val[2]), !.scalestring = PyStr(r.val[3])]
    ELSE [h EXCEPT !.pc = "raised"]

\* the widgets a constructor call reads, in the order of its keyword arguments
ArgOrder(kind) ==
    CASE kind = "pcd" -> <<"output_dir", "num_points", "remove_outliers", "normals",
                           "world_frame">>
      [] kind = "mesh" -> <<"output_dir", "num_faces", "texture_resolution",
                            "num_points", "remove_outliers", "normals">>
      [] kind = "splat" -> <<"output_dir">>

\* the values read, by widget
ArgsRead(h) ==
    [f \in {ArgOrder(h.kind)[k] : k \in 1..Len(h.argv)} |->
        h.argv[CHOOSE k \in 1..Len(h.argv) : ArgOrder(h.kind)[k] = f]]

\* export = Export...(load_config=config_path, output_dir=Path(output_dir.value), ...)
NewExport(h, cfg) ==
    CASE h.kind = "pcd" ->
            ExportPointCloud(cfg, ArgsRead(h), h.posstring, h.rpystring, h.scalestring)
      [] h.kind = "mesh" ->
            ExportPoissonMesh(cfg, ArgsRead(h), h.posstring, h.rpystring, h.scalestring)
      [] h.kind = "splat" ->
            ExportGaussianSplat(cfg, ArgsRead(h), h.posstring, h.rpystring,
                                h.scalestring)
WithExport(h, cfg) ==
    [h EXCEPT !.export = NewExport(h, cfg), !.log = Append(@, "construct")]

\* a handler that goes on without calling export.main()
CallMain_skipped(h) == [h EXCEPT !.pc = "in_main"]

\* export.main() is entered; the handler blocks in it
CallMain(h) == [h EXCEPT !.pc = "in_main", !.log = Append(@, "main_call")]

\* export.main() returns, having set export.complete or not; the handler
\* evaluates str(output_dir.value) and enters show_notification
MainReturns(h, complete, dir) ==
    [h EXCEPT !.pc = "clear", !.export.complete = complete, !.dirAtResult = dir,
              !.log = Append(@, "main_return")]

\* the handler's last statement has posted the result notification
Notified(h, notif) ==
    [h EXCEPT !.pc = "done", !.result = notif, !.log = Append(@, "notify_result")]

\* no run of the "Use Crop" callback is in flight: reading counts the runs
\* that have yet to evaluate crop_output.value, writing[v] those that have
\* evaluated it to v and have yet to assign control_panel.crop_viewport
NoCallbacks == [reading |-> 0, writing |-> [v \in BOOLEAN |-> 0]]
InFlight(cb) == cb.reading + cb.writing[FALSE] + cb.writing[TRUE]

Init ==
    /\ viewing_gsplat \in BOOLEAN
    /\ config_path = "outputs/run/config.yml"
    /\ crop_viewport \in BOOLEAN
    /\ crop_obb \in {PyNone, PanelBox}
    /\ crop_output = IF viewing_gsplat THEN NoWidget ELSE Checkbox(FALSE)
    /\ crop_callbacks = NoCallbacks
    /\ pcd = PointCloudTab(viewing_gsplat)
    /\ mesh = MeshTab(viewing_gsplat)
    /\ splat = SplatTab(viewing_gsplat)
    /\ clicks = <<>>
    /\ displayed = {}
    /\ edits = 0
    /\ cropCall = Unset

panelVars == <<viewing_gsplat, config_path, crop_obb>>
widgetVars == <<crop_output, crop_callbacks, pcd, mesh, splat, edits>>

\* --------------------------------------------------------- user edits
\* the user toggles "Use Crop": the viewer stores the checkbox's value and
\* starts a run of the on_update callback
UseCropUpdate(v) ==
    /\ crop_output.exists
    /\ v # crop_output.value
    /\ InFlight(crop_callbacks) < MaxUpdates
    /\ crop_output' = Checkbox(v)
    /\ crop_callbacks' = [crop_callbacks EXCEPT !.reading = @ + 1]
    /\ UNCHANGED <<panelVars, crop_viewport, pcd, mesh, splat, clicks, displayed,
                   edits, cropCall>>

\* a run of the callback evaluates crop_output.value
CropCallbackRead ==
    /\ crop_callbacks.reading > 0
    /\ crop_callbacks' = [crop_callbacks EXCEPT !.reading = @ - 1,
                              !.writing[crop_output.value] = @ + 1]
    /\ UNCHANGED <<panelVars, crop_viewport, crop_output, pcd, mesh, splat, clicks,
                   displayed, edits, cropCall>>

\* a run of the callback assigns control_panel.crop_viewport and ends
CropCallbackWrite(v) ==
    /\ crop_callbacks.writing[v] > 0
    /\ crop_viewport' = v
    /\ crop_callbacks' = [crop_callbacks EXCEPT !.writing[v] = @ - 1]
    /\ UNCHANGED <<panelVars, crop_output, pcd, mesh, splat, clicks, displayed,
                   edits, cropCall>>

\* the user edits a widget of a folder: the viewer stores the value
EditWidget(kind, f, v) ==
    /\ TabOf(kind).exists
    /\ edits < MaxEdits
    /\ f \in Fields(kind)
    /\ v \in FieldValues(kind, f)
    /\ v # TabOf(kind)[f]
    /\ pcd' = IF kind = "pcd" THEN [pcd EXCEPT ![f] = v] ELSE pcd
    /\ mesh' = IF kind = "mesh" THEN [mesh EXCEPT ![f] = v] ELSE mesh
    /\ splat' = IF kind = "splat" THEN [splat EXCEPT ![f] = v] ELSE splat
    /\ edits' = edits + 1
    /\ UNCHANGED <<panelVars, crop_viewport, crop_output, crop_callbacks, clicks,
                   displayed, cropCall>>

\* ------------------------------------------------------ click handlers
StepFrame(i, h) ==
    /\ clicks' = [clicks EXCEPT ![i] = h]
    /\ UNCHANGED <<panelVars, crop_viewport, widgetVars, displayed, cropCall>>

\* the user clicks the Export button of a folder: the handler starts,
\* evaluates str(output_dir.value) and creates its "Exporting ..." notification
Click(kind) ==
    /\ TabOf(kind).exists
    /\ Len(clicks) < MaxClicks
    /\ clicks' = Append(clicks,
                        NewFrame(kind,
                                 add_notification(ExportingTitle(kind),
                                     "File will be saved under "
                                         \o StrOf(TabOf(kind).output_dir),
                                     TRUE, TRUE, 0),
                                 TabOf(kind)))
    /\ UNCHANGED <<panelVars, crop_viewport, widgetVars, displayed, cropCall>>

\* notif.show(): the "Exporting ..." notification is displayed
ShowStart(i) ==
    /\ i \in 1..Len(clicks)
    /\ clicks[i].pc = "show"
    /\ clicks' = [clicks EXCEPT ![i] = Shown(clicks[i])]
    /\ displayed' = displayed \cup {show(clicks[i].notif)}
    /\ UNCHANGED <<panelVars, crop_viewport, widgetVars, cropCall>>

\* the crop guard is tested
Guard(i) ==
    /\ i \in 1..Len(clicks)
    /\ clicks[i].pc = "guard"
    /\ StepFrame(i, [CropGuard(clicks[i], crop_obb, crop_viewport) EXCEPT
                        !.cropAtGuard = crop_obb # PyNone /\ crop_viewport])

\* get_crop_string is called with control_panel's values as they are now, and
\* its result is unpacked
Crop(i) ==
    /\ i \in 1..Len(clicks)
    /\ clicks[i].pc = "crop"
    /\ StepFrame(i, Unpack3(clicks[i], get_crop_string(crop_obb, crop_viewport)))

\* the constructor call reads its next widget; after the last one the exporter
\* is constructed and export.main() is entered
ReadArg(i) ==
    /\ i \in 1..Len(clicks)
    /\ clicks[i].pc = "args"
    /\ LET h == clicks[i]
           f == ArgOrder(h.kind)[Len(h.argv) + 1]
           g == [h EXCEPT !.argv = Append(@, TabOf(h.kind)[f])]
       IN StepFrame(i, IF Len(g.argv) < Len(ArgOrder(h.kind)) THEN g
                       ELSE CallMain(WithExport(g, config_path)))

\* export.main() returns and the handler evaluates the arguments of
\* show_notification(export.complete, server, str(output_dir.value))
Finish(i, complete) ==
    /\ i \in 1..Len(clicks)
    /\ clicks[i].pc = "in_main"
    /\ StepFrame(i, MainReturns(clicks[i], complete, TabOf(clicks[i].kind).output_dir))

\* show_notification: server.clear_notification()
Clear(i) ==
    /\ i \in 1..Len(clicks)
    /\ clicks[i].pc = "clear"
    /\ clicks' = [clicks EXCEPT ![i].pc = "posting"]
    /\ displayed' = clear_notification(displayed)
    /\ UNCHANGED <<panelVars, crop_viewport, widgetVars, cropCall>>

\* show_notification goes on: server.add_notification(...) and, when the export
\* is complete, notif.show(); the handler ends
Post(i) ==
    /\ i \in 1..Len(clicks)
    /\ clicks[i].pc = "posting"
    /\ LET h == clicks[i]
           r == show_notification(h.export.complete, displayed, StrOf(h.dirAtResult))
       IN /\ clicks' = [clicks EXCEPT ![i] = Notified(h, r.notif)]
          /\ displayed' = r.server
    /\ UNCHANGED <<panelVars, crop_viewport, widgetVars, cropCall>>

Next ==
    \/ \E v \in BOOLEAN : UseCropUpdate(v)
    \/ CropCallbackRead
    \/ \E v \in BOOLEAN : CropCallbackWrite(v)
    \/ \E kind \in Kinds : \E f \in Fields(kind) : \E v \in FieldValues(kind, f) :
          EditWidget(kind, f, v)
    \/ \E kind \in Kinds : Click(kind)
    \/ \E i \in 1..MaxClicks : ShowStart(i)
    \/ \E i \in 1..MaxClicks : Guard(i)
    \/ \E i \in 1..MaxClicks : Crop(i)
    \/ \E i \in 1..MaxClicks : ReadArg(i)
    \/ \E i \in 1..MaxClicks : \E complete \in BOOLEAN : Finish(i, complete)
    \/ \E i \in 1..MaxClicks : Clear(i)
    \/ \E i \in 1..MaxClicks : Post(i)

Spec == Init /\ [][Next]_vars

\* ------------------------------------------- get_crop_string on its own
InitCrop ==
    /\ viewing_gsplat = FALSE
    /\ config_path = "outputs/run/config.yml"
    /\ crop_viewport = FALSE
    /\ crop_obb = PyNone
    /\ crop_output = Checkbox(FALSE)
    /\ crop_callbacks = NoCallbacks
    /\ pcd = PointCloudTab(FALSE)
    /\ mesh = MeshTab(FALSE)
    /\ splat = SplatTab(FALSE)
    /\ clicks = <<>>
    /\ displayed = {}
    /\ edits = 0
    /\ cropCall \in {[state |-> "args", obb |-> b, crop_viewport |-> cv, result |-> Unset] :
                        b \in CropBoxes, cv \in BOOLEAN}

CallGetCropString ==
    /\ cropCall.state = "args"
    /\ cropCall' = [cropCall EXCEPT !.state = "returned",
                        !.result = get_crop_string(cropCall.obb, cropCall.crop_viewport)]
    /\ UNCHANGED <<panelVars, crop_viewport, widgetVars, clicks, displayed>>

NextCrop == CallGetCropString

SpecCrop == InitCrop /\ [][NextCrop]_vars

\* ================================================================ claims
Frames == {clicks[i] : i \in 1..Len(clicks)}
Constructed(h) == h.export # NoExport
EventOrder == <<"notify_start", "construct", "main_call", "main_return", "notify_result">>
IsPrefix(s, t) == Len(s) <= Len(t) /\ s = SubSeq(t, 1, Len(s))
Count(s, e) == Cardinality({k \in 1..Len(s) : s[k] = e})

\* C1: whenever a click's exporter main() returns with complete false, an
\* "Export error!" notification has been created and displayed when the
\* handler ends.
C1_ErrorNotificationShown ==
    \A h \in Frames :
        (h.pc = "done" /\ ~h.export.complete) =>
            (h.result.title = "Export error!" /\ h.result.shown)

\* C2: whenever a click's exporter main() returns with complete true, the
\* handler ends having shown an "Export complete!" notification with
\* loading=False and the body "File saved under " followed by the text of the
\* Output Directory field, and it produced no "Export error!" notification;
\* the server displays it until a later handler clears the notifications.
C2_CompleteNotificationShown ==
    \A h \in Frames :
        (h.pc = "done" /\ h.export.complete) =>
            /\ h.result.title = "Export complete!"
            /\ h.result.title # "Export error!"
            /\ h.result.loading = FALSE
            /\ h.result.shown
            /\ h.result.body = "File saved under " \o StrOf(h.dirAtResult)
            /\ h.result \in displayed
               \/ \E g \in Frames : g # h /\ g.pc \in {"posting", "done"}

C2_Witness ==
    \E h \in Frames :
        /\ h.pc = "done" /\ h.export.complete
        /\ h.result.body = "File saved under /tmp/./out"
        /\ h.result \in displayed

\* C3: every argument an exporter is constructed with equals the value its
\* widget had at the time of the Export click, and load_config is the
\* config_path the panel was populated with.
C3_ArgsAreWidgetValues ==
    \A h \in Frames :
        Constructed(h) =>
            /\ h.export.load_config = config_path
            /\ h.export.output_dir = Path(h.atClick.output_dir)
            /\ h.kind = "pcd" =>
                  /\ h.export.num_points = h.atClick.num_points
                  /\ h.export.remove_outliers = h.atClick.remove_outliers
                  /\ h.export.normal_method = h.atClick.normals
                  /\ h.export.save_world_frame = h.atClick.world_frame
            /\ h.kind = "mesh" =>
                  /\ h.export.target_num_faces = h.atClick.num_faces
                  /\ h.export.num_pixels_per_side = h.atClick.texture_resolution
                  /\ h.export.num_points = h.atClick.num_points
                  /\ h.export.remove_outliers = h.atClick.remove_outliers
                  /\ h.export.normal_method = h.atClick.normals

\* C4: the events of a click come in the order: "Exporting ..." notification
\* shown with loading=True, exporter constructed, main() called (once), main()
\* returned, result notification posted; a finished handler has them all.
C4_PerClickOrder ==
    \A h \in Frames :
        /\ IsPrefix(h.log, EventOrder)
        /\ h.notif.loading
        /\ h.notif.shown <=> Len(h.log) >= 1
        /\ h.pc \in {"guard", "crop", "args", "raised"} => h.log = SubSeq(EventOrder, 1, 1)
        /\ Count(h.log, "main_call") <= 1
        /\ Constructed(h) <=> Len(h.log) >= 2
        /\ h.pc = "in_main" => h.log = SubSeq(EventOrder, 1, 3)
        /\ h.pc \in {"clear", "posting"} => h.log = SubSeq(EventOrder, 1, 4)
        /\ h.result # NoNotif <=> h.pc = "done"
        /\ h.pc = "done" => h.log = EventOrder

C4_Witness ==
    \E h \in Frames : h.pc = "done" /\ h.log = EventOrder /\ h.result # NoNotif

\* C5: with a Gaussian-splat model only the splat exporter is ever constructed,
\* with any other model only the point cloud and mesh exporters, and a click
\* constructs the exporter of the folder whose button was clicked.
C5_ExportersFollowModelType ==
    \A h \in Frames :
        /\ viewing_gsplat => h.kind = "splat"
        /\ ~viewing_gsplat => h.kind \in {"pcd", "mesh"}
        /\ Constructed(h) =>
              h.export.cls = (CASE h.kind = "pcd" -> "ExportPointCloud"
                                [] h.kind = "mesh" -> "ExportPoissonMesh"
                                [] h.kind = "splat" -> "ExportGaussianSplat")

C5_Witness ==
    \E h \in Frames :
        ~viewing_gsplat /\ h.kind = "mesh" /\ h.export.cls = "ExportPoissonMesh"

\* C6: an exporter is constructed either with obb_center, obb_rotation and
\* obb_scale formatted from the box's T, R and S (when the click found a crop
\* box and crop_viewport true) or with all three None (otherwise).
C6_CropAllOrNothing ==
    \A h \in Frames :
        Constructed(h) =>
            IF h.cropAtGuard
            THEN /\ crop_obb = PanelBox
                 /\ h.export.obb_center = PyStr("0.0000000000 1.0000000000 1.0000000000")
                 /\ h.export.obb_rotation = PyStr("0.0000000000 0.0000000000 3.1415926536")
                 /\ h.export.obb_scale = PyStr("2.0000000000 2.0000000000 2.0000000000")
            ELSE /\ h.export.obb_center = PyNone
                 /\ h.export.obb_rotation = PyNone
                 /\ h.export.obb_scale = PyNone

C6_Witness ==
    \E h \in Frames :
        /\ Constructed(h)
        /\ h.cropAtGuard /\ crop_obb = PanelBox
        /\ h.export.obb_center = PyStr("0.0000000000 1.0000000000 1.0000000000")

\* C7: get_crop_string returns, for every box and both values of
\* crop_viewport, a list of three strings (checked under SpecCrop).
C7_ReturnsThreeStrings ==
    cropCall.state = "returned" =>
        /\ cropCall.result.type = "list"
        /\ PyLen(cropCall.result) = 3

\* C8: with "Use Crop" updates interleaved with the export handlers, the
\* unpacking of get_crop_string's result never fails.
C8_UnpackNeverFails ==
    \A h \in Frames : h.pc # "raised"

\* C9: the directory named in the "Exporting ..." notification, the exporter's
\* output_dir and the directory named in "Export complete!" are the same.
C9_OneDirectoryPerClick ==
    \A h \in Frames :
        /\ h.notif.body = "File will be saved under " \o StrOf(h.atClick.output_dir)
        /\ h.pc # "show" => h.notif.shown
        /\ Constructed(h) => h.export.output_dir = Path(h.atClick.output_dir)
        /\ (h.pc = "done" /\ h.export.complete) =>
              /\ h.result.body = "File saved under " \o StrOf(h.dirAtResult)
              /\ h.export.output_dir = Path(h.dirAtResult)

====
